---- MODULE Spec2Model ----
(***************************************************************************)
(* A model of src/main.py (SEO opportunity monitor): the ControlManager,   *)
(* the StateManager (seen-post ledger), the KeywordManager (keyword tiers, *)
(* spam filter, find_matches), the TelegramCommandHandler and the          *)
(* RedditMonitor scan, with the files they persist to.                     *)
(*                                                                         *)
(* Time is measured in hours.  time.time() is the variable now; the clock  *)
(* advances TickHours at a time.  File writes are taken to succeed and to  *)
(* be atomic.                                                              *)
(***************************************************************************)
EXTENDS Integers, Sequences, FiniteSets, TLC

\* ------------------------------------------------------------------ bounds
\* The clock advances TickHours per Tick, at most MaxTicks times.
TickHours == 24
MaxTicks == 2
\* The number of messages sent to the bot.
MaxUpdates == 2
\* The number of keywords a scan searches (primary and secondary together).
NumKeywords == 2
\* The number of submissions one search returns at most (limit=15 in the code).
MaxSubmissions == 2
\* The number of rows of a keyword file besides the fixed ones.
MaxRows == 2
\* The number of pieces a text is made of.
MaxPieces == 3

\* ------------------------------------------------------- program constants
MAX_POST_AGE_HOURS == 24

\* unique_post_id values ("reddit_" + submission.id)
PostIds == {"reddit_a", "reddit_b"}

VARIABLES
    now,                \* time.time(), in hours
    \* ControlManager
    is_running,
    last_command,
    last_command_time,
    control_file,       \* monitor_control.json
    restarted,          \* history: the process has been restarted
    \* history kept by SpecControl, where the methods are called directly:
    control_calls,      \* the last two ControlManager mutators called in this run
    last_mutation,      \* the last mutator called in any run ("none" before the first)
    \* StateManager
    seen_posts,         \* dict post id -> time marked
    state_file,         \* monitor_state.json
    \* history kept by SpecLedger, where the methods are called directly:
    ledger_op,          \* the last StateManager call: its argument, time and result
    \* StateManager under concurrent callers (SpecSave)
    lock,               \* self._lock: the call that holds it, or "none"
    save_pc,            \* a save_state call: "idle", "wait" (for the lock), "write"
    save_written,       \* the keys json.dump has written so far
    save_views,         \* history: the values the ledger has had during the last save_state call
    mark_pc,            \* a mark_seen call: "idle", "wait", "locked"
    mark_arg,           \* its post_id
    \* KeywordManager
    keyword_rows,       \* the rows of the keyword file: <<keyword, volume>>, strings as sequences of characters
    primary_keywords,   \* list of <<keyword, volume>>
    secondary_keywords, \* list of <<keyword, volume>>
    all_keywords,       \* set of keywords
    km_text,            \* the text of the last is_spam or find_matches call
    spam_result,        \* what the last is_spam call returned
    match_result,       \* what the last find_matches call returned
    \* Telegram (the server side of getUpdates)
    tg_pending,         \* updates not yet confirmed by a getUpdates with a higher offset
    tg_next_id,         \* the update_id of the next message
    \* TelegramCommandHandler
    last_update_id,
    cmd_last_command_time,  \* TelegramCommandHandler.last_command_time
    processed_update_ids,
    update_file,        \* last_update_id.json
    updates,            \* check_commands: the updates of the current poll still to process
    cmd_result,         \* history: the last update the loop body took, and what it did with it
    hist_command_time,  \* history: the last message_time assigned at the end of the loop body, in any run
    hist_max_id,        \* history: the highest update_id processed in any run
    last_arrival,       \* history: the last start/stop command of this run (see NoteArrival)
    \* monitor_loop and RedditMonitor.scan
    scan_pc,            \* monitor_loop: "idle" between cycles, "backoff" after an error; inside
                        \* scan: "search", "alert", "kw_delay"; in the finally block:
                        \* "await_command", "gather", "final"; "done" after the return
    kw_idx,             \* scan: the index of kw in all_keywords
    submission_count,
    found_count,
    cur_post,           \* _process_submission: the post whose alert is being sent
    alerts,             \* history: alerts that reached Telegram in this run, per post, saturating at 2
    stats_opportunities,    \* stats['opportunities'] entries per post, saturating at 2
    stats_file,         \* daily_stats.json
    skip_reason,        \* history: why scan marked a post seen without matching it, in this run
    last_submission,    \* history: the last submission the search returned, and what scan did
                        \* with it; or the last failure of a search or of the cycle
    \* monitor_loop, the daily report
    wall_minute,        \* datetime.now(), in minutes since the midnight before the start
    last_report_check,  \* in the same minutes
    reports_sent        \* history: scheduled reports sent on the calendar day of wall_minute,
                        \* saturating at 2

controlVars == <<is_running, last_command, last_command_time, control_file>>
controlHist == <<control_calls, last_mutation>>
ledgerVars == <<seen_posts, state_file>>
lockVars == <<lock, save_pc, save_written, save_views, mark_pc, mark_arg>>
kmVars == <<keyword_rows, primary_keywords, secondary_keywords, all_keywords, km_text,
            spam_result, match_result>>
tgVars == <<tg_pending, tg_next_id>>
cmdVars == <<last_update_id, cmd_last_command_time, processed_update_ids, update_file, updates,
             cmd_result, hist_command_time, hist_max_id, last_arrival>>
scanVars == <<scan_pc, kw_idx, submission_count, found_count, cur_post, alerts,
              stats_opportunities, stats_file, skip_reason, last_submission>>
reportVars == <<wall_minute, last_report_check, reports_sent>>
vars == <<now, restarted, controlVars, controlHist, ledgerVars, ledger_op, lockVars, kmVars,
          tgVars, cmdVars, scanVars, reportVars>>

Min(a, b) == IF a <= b THEN a ELSE b

\* A dict as a function on a finite set of keys.
EmptyDict == [k \in {} |-> 0]
DictSet(d, k, v) == [x \in (DOMAIN d) \cup {k} |-> IF x = k THEN v ELSE d[x]]

MaxClock == MaxTicks * TickHours

\* The clock advances (time passes between any two steps of the program).
Tick ==
    /\ now < MaxClock
    /\ now' = now + TickHours
    /\ UNCHANGED <<restarted, controlVars, controlHist, ledgerVars, ledger_op, lockVars, kmVars, reportVars, tgVars, cmdVars,
                   scanVars>>

\* ----------------------------------------------------------------- strings
\* A str is a sequence of one-character strings.
UpperCase == <<"A", "B", "C", "D", "E", "F", "G", "H", "I", "J", "K", "L", "M", "N", "O", "P", "Q", "R", "S", "T", "U", "V", "W", "X", "Y", "Z">>
LowerCase == <<"a", "b", "c", "d", "e", "f", "g", "h", "i", "j", "k", "l", "m", "n", "o", "p", "q", "r", "s", "t", "u", "v", "w", "x", "y", "z">>
Digits == {"0", "1", "2", "3", "4", "5", "6", "7", "8", "9"}
Range(seq) == {seq[i] : i \in 1..Len(seq)}

\* str.lower, one character
ToLower ==
    [c \in Range(UpperCase) |-> LowerCase[CHOOSE i \in 1..Len(UpperCase) : UpperCase[i] = c]]
LowerChar(c) == IF c \in DOMAIN ToLower THEN ToLower[c] ELSE c
\* str.lower
lower(str) == [i \in 1..Len(str) |-> LowerChar(str[i])]

\* str.isalnum, one character
AlnumChars == Range(UpperCase) \cup Range(LowerCase) \cup Digits
IsAlnum(c) == c \in AlnumChars
\* what the regular expression \w matches
IsWordChar(c) == IsAlnum(c) \/ c = "_"

\* str.strip
RECURSIVE lstrip(_)
lstrip(str) == IF str # <<>> /\ Head(str) = " " THEN lstrip(Tail(str)) ELSE str
RECURSIVE rstrip(_)
rstrip(str) ==
    IF str # <<>> /\ str[Len(str)] = " " THEN rstrip(SubSeq(str, 1, Len(str) - 1)) ELSE str
strip(str) == rstrip(lstrip(str))

\* The positions (0-based) where sub occurs in str.
Occurrences(sub, str) ==
    {i \in 0..(Len(str) - Len(sub)) : SubSeq(str, i + 1, i + Len(sub)) = sub}
\* sub in str
Contains(sub, str) == Occurrences(sub, str) # {}

\* The regular expression \b at the position after the first pos characters.
WordBoundary(str, pos) ==
    LET before == pos >= 1 /\ IsWordChar(str[pos])
        after == pos < Len(str) /\ IsWordChar(str[pos + 1])
    IN  before # after
\* The positions where \b + re.escape(word) + \b matches in str.
WordOccurrences(word, str) ==
    {i \in Occurrences(word, str) :
        WordBoundary(str, i) /\ WordBoundary(str, i + Len(word))}
\* re.search(r'\b' + re.escape(word) + r'\b', str)
SearchWord(word, str) == WordOccurrences(word, str) # {}

\* Concatenation of a sequence of strs.
RECURSIVE Concat(_)
Concat(strs) == IF strs = <<>> THEN <<>> ELSE Head(strs) \o Concat(Tail(strs))

\* ---------------------------------------------------------- ControlManager
NoControlFile ==
    [exists |-> FALSE, is_running |-> TRUE, last_command |-> "start", last_command_time |-> 0]

Last2(s) == IF Len(s) > 2 THEN SubSeq(s, Len(s) - 1, Len(s)) ELSE s

\* ControlManager.save_control: the three fields, written to the control file.
save_control(running, command, time) ==
    control_file' = [exists |-> TRUE, is_running |-> running,
                     last_command |-> command, last_command_time |-> time]

\* A start() that forgets to persist.
start_nosave ==
    /\ is_running' = TRUE
    /\ last_command' = "start"
    /\ last_command_time' = now
    /\ control_file' = control_file

\* ControlManager.start
start ==
    /\ is_running' = TRUE
    /\ last_command' = "start"
    /\ last_command_time' = now
    /\ save_control(TRUE, "start", now)

\* A stop() that forgets to persist.
stop_nosave ==
    /\ is_running' = FALSE
    /\ last_command' = "stop"
    /\ last_command_time' = now
    /\ control_file' = control_file

\* ControlManager.stop
stop ==
    /\ is_running' = FALSE
    /\ last_command' = "stop"
    /\ last_command_time' = now
    /\ save_control(FALSE, "stop", now)

\* A should_run() that does not look at the flag.
should_run_always == TRUE

\* ControlManager.should_run
should_run == is_running

\* A constructor that never reads the control file.
ControlManager_init_nofile ==
    /\ is_running' = TRUE
    /\ last_command' = "start"
    /\ last_command_time' = now
    /\ control_file' = control_file

\* ControlManager.__init__ with load_control: the defaults, then the fields
\* of the control file when it exists.
ControlManager_init ==
    /\ IF control_file.exists
         THEN /\ is_running' = control_file.is_running
              /\ last_command' = control_file.last_command
              /\ last_command_time' = control_file.last_command_time
         ELSE /\ is_running' = TRUE
              /\ last_command' = "start"
              /\ last_command_time' = now
    /\ control_file' = control_file

\* The ControlManager alone, under any sequence of calls of its methods.
CM_Start ==
    /\ start
    /\ control_calls' = Last2(Append(control_calls, "start"))
    /\ last_mutation' = "start"
    /\ UNCHANGED <<now, restarted, ledgerVars, ledger_op, lockVars, kmVars, reportVars, tgVars, cmdVars, scanVars>>
CM_Stop ==
    /\ stop
    /\ control_calls' = Last2(Append(control_calls, "stop"))
    /\ last_mutation' = "stop"
    /\ UNCHANGED <<now, restarted, ledgerVars, ledger_op, lockVars, kmVars, reportVars, tgVars, cmdVars, scanVars>>
CM_Save ==
    /\ save_control(is_running, last_command, last_command_time)
    /\ UNCHANGED <<now, restarted, is_running, last_command, last_command_time, controlHist,
                   ledgerVars, ledger_op, lockVars, kmVars, reportVars, tgVars, cmdVars, scanVars>>
CM_Restart ==
    /\ ControlManager_init
    /\ control_calls' = <<>>
    /\ restarted' = TRUE
    /\ UNCHANGED <<now, last_mutation, ledgerVars, ledger_op, lockVars, kmVars, reportVars, tgVars, cmdVars, scanVars>>
\* ------------------------------------------------------------ StateManager
NoStateFile == [exists |-> FALSE, data |-> EmptyDict]

\* An is_seen that finds nothing.
is_seen_never(post_id) == FALSE

\* StateManager.is_seen
is_seen(post_id) == post_id \in DOMAIN seen_posts

\* A mark_seen that toggles membership instead of inserting.
mark_seen_toggle(post_id) ==
    seen_posts' = IF post_id \in DOMAIN seen_posts
                    THEN [x \in (DOMAIN seen_posts) \ {post_id} |-> seen_posts[x]]
                    ELSE DictSet(seen_posts, post_id, now)

\* StateManager.mark_seen
mark_seen(post_id) ==
    seen_posts' = DictSet(seen_posts, post_id, now)

\* StateManager.save_state
save_state == state_file' = [exists |-> TRUE, data |-> seen_posts]

\* A load_state that keeps every persisted entry.
load_state_noprune ==
    /\ seen_posts' = IF state_file.exists THEN state_file.data ELSE EmptyDict
    /\ state_file' = state_file

\* StateManager.load_state: the persisted entries newer than the cutoff.
load_state ==
    /\ seen_posts' =
         IF state_file.exists
           THEN LET data == state_file.data
                    cutoff_time == now - MAX_POST_AGE_HOURS
                IN  [pid \in {k \in DOMAIN data : data[k] > cutoff_time} |-> data[pid]]
           ELSE EmptyDict
    /\ state_file' = state_file

\* The record of a StateManager call: what was called, on which id, when, and
\* what it returned.
LedgerOp(op, post_id, result) ==
    [op |-> op, post_id |-> post_id, at |-> now, result |-> result]

\* The StateManager alone, under any sequence of calls of its methods.
\* The result recorded for mark_seen is whether the id was in the ledger
\* before the call.
L_MarkSeenId(post_id) ==
    /\ mark_seen(post_id)
    /\ ledger_op' = LedgerOp("mark_seen", post_id, is_seen(post_id))
    /\ UNCHANGED <<now, restarted, controlVars, controlHist, state_file, lockVars, kmVars, reportVars, tgVars, cmdVars,
                   scanVars>>
L_MarkSeen == \E post_id \in PostIds : L_MarkSeenId(post_id)
L_IsSeenId(post_id) ==
    /\ ledger_op' = LedgerOp("is_seen", post_id, is_seen(post_id))
    /\ UNCHANGED <<now, restarted, controlVars, controlHist, ledgerVars, lockVars, kmVars, reportVars, tgVars, cmdVars,
                   scanVars>>
L_IsSeen == \E post_id \in PostIds : L_IsSeenId(post_id)
L_SaveState ==
    /\ save_state
    /\ ledger_op' = LedgerOp("save_state", "", TRUE)
    /\ UNCHANGED <<now, restarted, controlVars, controlHist, seen_posts, lockVars, kmVars, reportVars, tgVars, cmdVars,
                   scanVars>>
L_Restart ==
    /\ load_state
    /\ ledger_op' = LedgerOp("load_state", "", TRUE)
    /\ restarted' = TRUE
    /\ UNCHANGED <<now, controlVars, controlHist, lockVars, kmVars, reportVars, tgVars, cmdVars, scanVars>>

\* The StateManager under concurrent callers: a save_state call beside
\* mark_seen calls, with every step between taking and releasing the lock a
\* step of its own (json.dump writes the file entry by entry).
\* A lock that never makes a caller wait.
LockAcquire_nowait(call) == lock' = call

\* "async with self._lock", entering
LockAcquire(call) ==
    /\ lock = "none"
    /\ lock' = call

\* "async with self._lock", leaving
LockRelease == lock' = "none"

otherVars == <<now, restarted, controlVars, controlHist, ledger_op, kmVars, reportVars, tgVars, cmdVars,
               scanVars>>

\* save_state is called.
S_Call ==
    /\ save_pc = "idle"
    /\ save_pc' = "wait"
    /\ save_written' = {}
    /\ save_views' = {seen_posts}
    /\ UNCHANGED <<otherVars, ledgerVars, lock, mark_pc, mark_arg>>

\* save_state takes the lock and opens the file for writing, which empties it.
S_Open ==
    /\ save_pc = "wait"
    /\ LockAcquire("save_state")
    /\ save_pc' = "write"
    /\ state_file' = [exists |-> TRUE, data |-> EmptyDict]
    /\ UNCHANGED <<otherVars, seen_posts, save_written, save_views, mark_pc, mark_arg>>

\* json.dump writes one more entry of self.seen_posts.
S_Write ==
    \E pid \in (DOMAIN seen_posts) \ save_written :
        /\ save_pc = "write"
        /\ state_file' = [exists |-> TRUE,
                          data |-> DictSet(state_file.data, pid, seen_posts[pid])]
        /\ save_written' = save_written \cup {pid}
        /\ UNCHANGED <<otherVars, seen_posts, lock, save_pc, save_views, mark_pc, mark_arg>>

\* json.dump has written every entry: the file is closed and the lock released.
S_Close ==
    /\ save_pc = "write"
    /\ DOMAIN seen_posts \subseteq save_written
    /\ LockRelease
    /\ save_pc' = "idle"
    /\ UNCHANGED <<otherVars, ledgerVars, save_written, save_views, mark_pc, mark_arg>>

\* mark_seen(post_id) is called.
M_Call ==
    \E post_id \in PostIds :
        /\ mark_pc = "idle"
        /\ mark_pc' = "wait"
        /\ mark_arg' = post_id
        /\ UNCHANGED <<otherVars, ledgerVars, lock, save_pc, save_written, save_views>>

\* mark_seen takes the lock.
M_Acquire ==
    /\ mark_pc = "wait"
    /\ LockAcquire("mark_seen")
    /\ mark_pc' = "locked"
    /\ UNCHANGED <<otherVars, ledgerVars, save_pc, save_written, save_views, mark_arg>>

\* mark_seen assigns the entry and releases the lock.
M_Body ==
    /\ mark_pc = "locked"
    /\ mark_seen(mark_arg)
    /\ LockRelease
    /\ mark_pc' = "idle"
    /\ save_views' = IF save_pc # "idle" THEN save_views \cup {seen_posts'} ELSE save_views
    /\ UNCHANGED <<otherVars, state_file, save_pc, save_written, mark_arg>>

\* ----------------------------------------------------------- KeywordManager
NoMatchResult ==
    [matched_keywords |-> <<>>, matched_competitors |-> {}, priority |-> "secondary",
     india_related |-> FALSE]

\* sorted_keywords[:10] and sorted_keywords[10:]
PrimaryTierSize == 10

\* The loops over the rows and over the keyword lists go through their list
\* in order; a list of more than one element is taken as its first half
\* followed by its second half, and the result for the first half is
\* evaluated (the test "first = first") before the second half is begun:
\* this keeps the evaluation shallow for the lists of more than two hundred
\* keywords.

\* _process_keywords, the first loop: the (kw, volume) pairs of the rows that
\* are kept.
RECURSIVE keyword_volume_pairs(_)
keyword_volume_pairs(rows) ==
    IF rows = <<>> THEN <<>>
    ELSE IF Len(rows) = 1
      THEN LET row == Head(rows)
               kw == lower(strip(row[1]))
               volume == row[2]
           IN  IF kw = <<>> \/ Len(kw) <= 1 \/ kw = <<"n", "a", "n">>
                 THEN <<>>
                 ELSE <<(<<kw, volume>>)>>
      ELSE LET half == Len(rows) \div 2
           IN  keyword_volume_pairs(SubSeq(rows, 1, half))
                 \o keyword_volume_pairs(SubSeq(rows, half + 1, Len(rows)))

\* The index of kw in a list of <<kw, volume>> items, 0 if it is not there.
IndexOf(items, kw) ==
    IF \E i \in 1..Len(items) : items[i][1] = kw
      THEN CHOOSE i \in 1..Len(items) : items[i][1] = kw
      ELSE 0

\* A kw_dict update that lets the last row win.
kw_dict_put_last(items, kw, vol) ==
    LET i == IndexOf(items, kw) IN
    IF i = 0 THEN Append(items, <<kw, vol>>) ELSE [items EXCEPT ![i] = <<kw, vol>>]

\* _process_keywords, the body of the second loop; kw_dict is a dict, which
\* keeps its keys in the order of their first insertion:
\* "if kw not in kw_dict or vol > kw_dict[kw]: kw_dict[kw] = vol"
kw_dict_put(items, kw, vol) ==
    LET i == IndexOf(items, kw) IN
    IF i = 0 THEN Append(items, <<kw, vol>>)
    ELSE IF vol > items[i][2] THEN [items EXCEPT ![i] = <<kw, vol>>]
    ELSE items

\* _process_keywords, the second loop
RECURSIVE kw_dict_items(_, _)
kw_dict_items(pairs, items) ==
    IF pairs = <<>> THEN items
    ELSE IF Len(pairs) = 1 THEN kw_dict_put(items, Head(pairs)[1], Head(pairs)[2])
    ELSE LET half == Len(pairs) \div 2
             first == kw_dict_items(SubSeq(pairs, 1, half), items)
         IN  IF first = first
               THEN kw_dict_items(SubSeq(pairs, half + 1, Len(pairs)), first)
               ELSE first

\* An insertion that puts an item before the items of the same volume.
insert_sorted_before(sorted_items, item) ==
    LET n == Cardinality({i \in 1..Len(sorted_items) : sorted_items[i][2] > item[2]})
    IN  SubSeq(sorted_items, 1, n) \o <<item>> \o SubSeq(sorted_items, n + 1, Len(sorted_items))

\* sorted(..., key=volume, reverse=True) is stable: an item goes after the
\* items of its own volume that came before it.
insert_sorted(sorted_items, item) ==
    LET n == Cardinality({i \in 1..Len(sorted_items) : sorted_items[i][2] >= item[2]})
    IN  SubSeq(sorted_items, 1, n) \o <<item>> \o SubSeq(sorted_items, n + 1, Len(sorted_items))

\* sorted(kw_dict.items(), key=lambda x: x[1], reverse=True)
RECURSIVE sorted_by_volume(_, _)
sorted_by_volume(items, sorted_items) ==
    IF items = <<>> THEN sorted_items
    ELSE IF Len(items) = 1 THEN insert_sorted(sorted_items, Head(items))
    ELSE LET half == Len(items) \div 2
             first == sorted_by_volume(SubSeq(items, 1, half), sorted_items)
         IN  IF first = first
               THEN sorted_by_volume(SubSeq(items, half + 1, Len(items)), first)
               ELSE first

\* KeywordManager._process_keywords
process_keywords(rows) ==
    LET sorted_keywords ==
            sorted_by_volume(kw_dict_items(keyword_volume_pairs(rows), <<>>), <<>>)
        n == Len(sorted_keywords)
    IN  /\ primary_keywords' = SubSeq(sorted_keywords, 1, Min(PrimaryTierSize, n))
        /\ secondary_keywords' = SubSeq(sorted_keywords, PrimaryTierSize + 1, n)
        /\ all_keywords' = {sorted_keywords[i][1] : i \in 1..n}

\* KeywordManager.__init__, once in a run, on a keyword file with the given
\* rows.
KM_LoadFrom(files) ==
    \E rows \in files :
        /\ keyword_rows = <<>>
        /\ keyword_rows' = rows
        /\ process_keywords(rows)
        /\ km_text' = <<>>
        /\ spam_result' = FALSE
        /\ match_result' = NoMatchResult
        /\ UNCHANGED <<now, restarted, controlVars, controlHist, ledgerVars, ledger_op,
                       lockVars, reportVars, tgVars, cmdVars, scanVars>>

\* The keyword files: up to MaxRows rows of a few spellings and volumes,
\* before or after nine other keywords of the middle volume.
Volumes == {1, 2, 3}
RawKeywords == {<<"a", "p", "i">>, <<" ", "A", "P", "I", " ">>, <<"d", "e", "f", "i">>, <<"r">>}
FillerRows == [i \in 1..9 |-> <<(<<"k", "w", UpperCase[i]>>), 2>>]
SeqsUpTo(S, n) == UNION {[1..k -> S] : k \in 0..n}
KeywordFiles ==
    LET free == SeqsUpTo(RawKeywords \X Volumes, MaxRows)
    IN  {rows \o FillerRows : rows \in free} \cup {FillerRows \o rows : rows \in free}
KM_Load == KM_LoadFrom(KeywordFiles)

\* SPAM_KEYWORDS
SPAM_KEYWORDS == <<
    <<"b", "u", "y", " ", "c", "h", "e", "a", "p">>,
    <<"d", "i", "s", "c", "o", "u", "n", "t">>,
    <<"p", "r", "o", "m", "o", " ", "c", "o", "d", "e">>,
    <<"r", "e", "f", "e", "r", "r", "a", "l", " ", "l", "i", "n", "k">>,
    <<"s", "i", "g", "n", " ", "u", "p", " ", "b", "o", "n", "u", "s">>,
    <<"a", "f", "f", "i", "l", "i", "a", "t", "e">>,
    <<"c", "l", "i", "c", "k", " ", "h", "e", "r", "e">>,
    <<"l", "i", "m", "i", "t", "e", "d", " ", "o", "f", "f", "e", "r">>,
    <<"g", "e", "t", " ", "p", "a", "i", "d">>,
    <<"e", "a", "r", "n", " ", "m", "o", "n", "e", "y", " ", "f", "a", "s", "t">>,
    <<"m", "a", "k", "e", " ", "m", "o", "n", "e", "y">>,
    <<"g", "u", "a", "r", "a", "n", "t", "e", "e", "d", " ", "p", "r", "o", "f", "i", "t">>,
    <<"t", "r", "a", "d", "i", "n", "g", " ", "s", "i", "g", "n", "a", "l", "s">>,
    <<"p", "u", "m", "p", " ", "a", "n", "d", " ", "d", "u", "m", "p">>,
    <<"m", "o", "o", "n", "s", "h", "o", "t">>,
    <<"l", "a", "m", "b", "o">>,
    <<"[", "S", "T", "O", "R", "E", "]">>,
    <<"[", "S", "E", "L", "L", "I", "N", "G", "]">>,
    <<"[", "A", "D", "]">>,
    <<"D", "M", " ", "m", "e">>,
    <<"t", "e", "l", "e", "g", "r", "a", "m", " ", "g", "r", "o", "u", "p">>,
    <<"b", "u", "y", " ", "n", "o", "w">>,
    <<"s", "a", "l", "e">>,
    <<"s", "h", "o", "p">>,
    <<"c", "o", "u", "p", "o", "n">>,
    <<"d", "e", "a", "l">> >>

\* COMPETITORS, the three lists one after the other
COMPETITORS == <<
    <<"B", "i", "n", "a", "n", "c", "e">>,
    <<"C", "o", "i", "n", "b", "a", "s", "e">>,
    <<"K", "r", "a", "k", "e", "n">>,
    <<"C", "r", "y", "p", "t", "o", ".", "c", "o", "m">>,
    <<"G", "e", "m", "i", "n", "i">>,
    <<"K", "u", "C", "o", "i", "n">>,
    <<"O", "K", "X">>,
    <<"B", "y", "b", "i", "t">>,
    <<"M", "E", "X", "C">>,
    <<"U", "p", "h", "o", "l", "d">>,
    <<"B", "i", "t", "f", "i", "n", "e", "x">>,
    <<"B", "i", "t", "m", "a", "r", "t">>,
    <<"B", "i", "t", "s", "t", "a", "m", "p">>,
    <<"C", "o", "i", "n", "D", "C", "X">>,
    <<"M", "u", "d", "r", "e", "x">>,
    <<"C", "o", "i", "n", "S", "w", "i", "t", "c", "h">>,
    <<"Z", "e", "b", "P", "a", "y">>,
    <<"U", "n", "o", "c", "o", "i", "n">>,
    <<"B", "i", "t", "b", "n", "s">>,
    <<"W", "a", "z", "i", "r", "X">>,
    <<"U", "n", "i", "s", "w", "a", "p">>,
    <<"P", "a", "n", "c", "a", "k", "e", "S", "w", "a", "p">>,
    <<"d", "Y", "d", "X">>,
    <<"C", "u", "r", "v", "e", " ", "F", "i", "n", "a", "n", "c", "e">>,
    <<"D", "O", "D", "O">>,
    <<"K", "y", "b", "e", "r", "S", "w", "a", "p">> >>

\* _build_patterns: india_terms
india_terms == <<
    <<"i", "n", "d", "i", "a">>,
    <<"i", "n", "d", "i", "a", "n">>,
    <<"i", "n", "r">>,
    <<"r", "u", "p", "e", "e">>,
    <<"d", "e", "l", "h", "i">>,
    <<"m", "u", "m", "b", "a", "i">>,
    <<"b", "a", "n", "g", "a", "l", "o", "r", "e">>,
    <<"b", "e", "n", "g", "a", "l", "u", "r", "u">>,
    <<"k", "o", "l", "k", "a", "t", "a">>,
    <<"c", "h", "e", "n", "n", "a", "i">>,
    <<"h", "y", "d", "e", "r", "a", "b", "a", "d">> >>

\* An is_spam that looks for the phrases as they are spelled in the list.
RECURSIVE is_spam_unfolded(_, _)
is_spam_unfolded(text, spam_keywords) ==
    IF spam_keywords = <<>> THEN FALSE
    ELSE IF Contains(Head(spam_keywords), lower(text)) THEN TRUE
    ELSE is_spam_unfolded(text, Tail(spam_keywords))

\* KeywordManager.is_spam, the loop over the spam keywords still to try
RECURSIVE is_spam_loop(_, _)
is_spam_loop(text, spam_keywords) ==
    IF spam_keywords = <<>> THEN FALSE
    ELSE IF Contains(lower(Head(spam_keywords)), lower(text)) THEN TRUE
    ELSE is_spam_loop(text, Tail(spam_keywords))

\* KeywordManager.is_spam
is_spam(text) == is_spam_loop(text, SPAM_KEYWORDS)

\* find_matches: the test of one keyword against text_lower
keyword_matches(keyword, text_lower) ==
    IF Len(keyword) <= 3 THEN SearchWord(keyword, text_lower)
    ELSE Contains(keyword, text_lower)

\* find_matches, "Check primary keywords": the loop over the keywords still
\* to check; acc holds matched_keywords and keyword_priority.
RECURSIVE check_primary(_, _, _)
check_primary(keywords, text_lower, acc) ==
    IF keywords = <<>> THEN acc
    ELSE LET keyword == Head(keywords)[1] IN
         check_primary(Tail(keywords), text_lower,
             IF keyword_matches(keyword, text_lower)
               THEN [matched_keywords |-> Append(acc.matched_keywords, keyword),
                     keyword_priority |-> "primary"]
               ELSE acc)

\* A step of the secondary loop that sets the priority as the primary loop does.
check_secondary_step_escalating(keyword, text_lower, acc) ==
    IF keyword \in Range(acc.matched_keywords) THEN acc
    ELSE IF keyword_matches(keyword, text_lower)
      THEN [matched_keywords |-> Append(acc.matched_keywords, keyword),
            keyword_priority |-> "primary"]
      ELSE acc

\* find_matches, "Check secondary keywords": the body of the loop
check_secondary_step(keyword, text_lower, acc) ==
    IF keyword \in Range(acc.matched_keywords) THEN acc
    ELSE IF keyword_matches(keyword, text_lower)
      THEN [acc EXCEPT !.matched_keywords = Append(@, keyword)]
      ELSE acc

RECURSIVE check_secondary(_, _, _)
check_secondary(keywords, text_lower, acc) ==
    IF keywords = <<>> THEN acc
    ELSE IF Len(keywords) = 1 THEN check_secondary_step(Head(keywords)[1], text_lower, acc)
    ELSE LET half == Len(keywords) \div 2
             first == check_secondary(SubSeq(keywords, 1, half), text_lower, acc)
         IN  IF first = first
               THEN check_secondary(SubSeq(keywords, half + 1, Len(keywords)), text_lower, first)
               ELSE first

\* self.secondary_keywords[:200]
SecondaryCheckLimit == 200

\* A secondary check without the cap.
CheckedSecondary_all == secondary_keywords

\* The keywords that find_matches checks.
CheckedSecondary ==
    SubSeq(secondary_keywords, 1, Min(SecondaryCheckLimit, Len(secondary_keywords)))

\* competitor_pattern.findall(text_lower) as a set: the names that occur
\* between word boundaries (no name of the roster occurs inside another).
matched_competitors(text_lower) ==
    {lower(COMPETITORS[i]) : i \in {j \in 1..Len(COMPETITORS) :
                                      SearchWord(lower(COMPETITORS[j]), text_lower)}}

\* KeywordManager.is_india_related (the pattern ignores case)
is_india_related(text) ==
    \E i \in 1..Len(india_terms) : SearchWord(india_terms[i], lower(text))

\* KeywordManager.find_matches
find_matches(text) ==
    IF text = <<>> THEN NoMatchResult
    ELSE LET text_lower == lower(text)
             acc == check_secondary(CheckedSecondary, text_lower,
                        check_primary(primary_keywords, text_lower,
                            [matched_keywords |-> <<>>, keyword_priority |-> "secondary"]))
         IN  [matched_keywords |-> acc.matched_keywords,
              matched_competitors |-> matched_competitors(text_lower),
              priority |-> acc.keyword_priority,
              india_related |-> is_india_related(text)]

\* The texts: up to MaxPieces pieces, one after the other.
TextsOf(pieces) == {Concat(ps) : ps \in SeqsUpTo(pieces, MaxPieces)}
MatchPieces == {<<"a", "p", "i">>, <<"A", "P", "I">>, <<"d", "e", "f", "i">>, <<"r">>, <<" ">>, <<"_">>, <<" ", "o", "k", "x">>, <<" ", "i", "n", "r">>}
SellingPiece == <<"[", "S", "E", "L", "L", "I", "N", "G", "]">>
CheapBtcPiece == <<" ", "c", "h", "e", "a", "p", " ", "B", "T", "C">>
BitcoinNewsPiece == <<"b", "i", "t", "c", "o", "i", "n", " ", "n", "e", "w", "s", " ", "t", "o", "d", "a", "y">>
SpamPieces == {SellingPiece, CheapBtcPiece, BitcoinNewsPiece, <<"D", "M", " ", "m", "e">>, <<" ">>}

\* The keyword files that texts are matched against: the two keywords of
\* MatchPieces with any volumes, after the nine others.
MatchFiles ==
    {FillerRows \o <<(<<<<"a", "p", "i">>, v1>>), (<<<<"d", "e", "f", "i">>, v2>>)>> : v1, v2 \in Volumes}
KM_LoadMatch == KM_LoadFrom(MatchFiles)

\* The call of find_matches on a text (one text is drawn in a run).
KM_FindMatchesIn(texts) ==
    \E text \in texts :
        /\ keyword_rows # <<>>
        /\ km_text = <<>>
        /\ km_text' = text
        /\ match_result' = find_matches(text)
        /\ UNCHANGED <<now, restarted, controlVars, controlHist, ledgerVars, ledger_op,
                       lockVars, reportVars, keyword_rows, primary_keywords, secondary_keywords,
                       all_keywords, spam_result, tgVars, cmdVars, scanVars>>
KM_FindMatches == KM_FindMatchesIn(TextsOf(MatchPieces))

\* Keyword files with more secondary keywords than find_matches checks: the
\* nine keywords of the middle volume, two hundred more of them, and then the
\* two keywords of MatchPieces with any volumes.  With ten keywords in the
\* primary tier, the last two rows are in the primary tier, or at the ranks
\* 200 and 201 of the secondary tier.
TailFillerRows ==
    [n \in 1..SecondaryCheckLimit |->
        <<(<<"k", "w", UpperCase[((n - 1) \div 25) + 1], UpperCase[((n - 1) % 25) + 1]>>), 2>>]
TailFiles ==
    {FillerRows \o TailFillerRows
        \o <<(<<<<"a", "p", "i">>, v1>>), (<<<<"d", "e", "f", "i">>, v2>>)>> : v1, v2 \in Volumes}
KM_LoadTail == KM_LoadFrom(TailFiles)

\* The texts matched against them: the two keywords, the last of the two
\* hundred, a competitor and a blank.
TailPieces == {<<"a", "p", "i">>, <<"d", "e", "f", "i">>, <<"k", "w", "h", "y">>, <<" ">>, <<" ", "o", "k", "x">>}
KM_FindMatchesTail == KM_FindMatchesIn(TextsOf(TailPieces))

\* The call of is_spam on a text (one text is drawn in a run).
KM_IsSpam ==
    \E text \in TextsOf(SpamPieces) :
        /\ km_text = <<>>
        /\ km_text' = text
        /\ spam_result' = is_spam(text)
        /\ UNCHANGED <<now, restarted, controlVars, controlHist, ledgerVars, ledger_op,
                       lockVars, reportVars, keyword_rows, primary_keywords, secondary_keywords,
                       all_keywords, match_result, tgVars, cmdVars, scanVars>>

\* ------------------------------------------------------------ RedditMonitor
\* What _process_submission finds in a submission: no text, spam, no keyword
\* or competitor match, a match, or an attribute that raises.
Kinds == {"empty", "spam", "nomatch", "match", "raises"}
\* The age of a submission when the search returns it, in hours.
SubmissionAges == {0, MAX_POST_AGE_HOURS, MAX_POST_AGE_HOURS + 1}

NoSubmission == [post_id |-> "", result |-> "none"]

\* monitor_loop: the positions inside "while True" (each one at an await),
\* and the positions of the finally block.
LoopPcs == {"idle", "search", "alert", "kw_delay", "backoff"}
ShutdownPcs == {"await_command", "gather", "final", "done"}

\* RedditMonitor._is_fresh
is_fresh(created_utc) ==
    LET age_seconds == now - created_utc IN age_seconds <= MAX_POST_AGE_HOURS

\* DailyStatsManager: the date of today, and the stats file.  (The date in
\* memory is the date of the clock: wherever the stats are written, the
\* clock has stood still since they were loaded.)
Today == now \div 24
NoStatsFile == [exists |-> FALSE, date |-> 0, opportunities |-> [p \in PostIds |-> 0]]

\* DailyStatsManager.load_stats: the file's stats if it is of today.
load_stats ==
    IF stats_file.exists /\ stats_file.date = Today
      THEN stats_file.opportunities
      ELSE [p \in PostIds |-> 0]

\* DailyStatsManager.add_opportunity
add_opportunity(post_id) ==
    stats_opportunities' = [stats_opportunities EXCEPT ![post_id] = Min(@ + 1, 2)]

\* DailyStatsManager.save_stats
save_stats ==
    stats_file' = [exists |-> TRUE, date |-> Today, opportunities |-> stats_opportunities]

\* A monitor loop that begins its cycle without the should_run() test.
BeginCycle_unpaused ==
    /\ scan_pc = "idle"
    /\ scan_pc' = "search"
    /\ kw_idx' = 1
    /\ submission_count' = 0
    /\ found_count' = 0
    /\ UNCHANGED <<now, restarted, controlVars, controlHist, ledgerVars, ledger_op, lockVars, kmVars, reportVars, tgVars,
                   cmdVars, cur_post, alerts, stats_opportunities, stats_file, skip_reason,
                   last_submission>>

\* monitor_loop, the top of "while True" when should_run(): a scan cycle
\* begins, and scan starts its first search (no await lies between the two
\* should_run() tests).
BeginCycle ==
    /\ scan_pc = "idle"
    /\ should_run
    /\ scan_pc' = "search"
    /\ kw_idx' = 1
    /\ submission_count' = 0
    /\ found_count' = 0
    /\ UNCHANGED <<now, restarted, controlVars, controlHist, ledgerVars, ledger_op, lockVars, kmVars, reportVars, tgVars,
                   cmdVars, cur_post, alerts, stats_opportunities, stats_file, skip_reason,
                   last_submission>>

\* What scan does with a submission the search returns, up to the next await.
SubmissionResult(post_id, created_utc, kind, search_timed_out) ==
    CASE search_timed_out -> "search_timeout"
      [] ~search_timed_out /\ ~should_run -> "interrupted"
      [] ~search_timed_out /\ should_run /\ is_seen(post_id) -> "seen"
      [] ~search_timed_out /\ should_run /\ ~is_seen(post_id) /\ ~is_fresh(created_utc)
           -> "old"
      [] OTHER -> kind

\* Marking results that leave out the exception handlers.
MarkingResults_unhandled == {"old", "spam", "match"}

\* Marking results without the freshness test's mark.
MarkingResults_not_old == {"spam", "raises", "match"}

\* Marking results without the spam filter's mark.
MarkingResults_not_spam == {"old", "raises", "match"}

\* Marking results that mark whatever _process_submission has looked at.
MarkingResults_every_skip == {"old", "spam", "raises", "match", "empty", "nomatch"}

\* Marking results without the mark that precedes the alert.
MarkingResults_not_match == {"old", "spam", "raises"}

\* The results on which the submission is marked seen before any await: too
\* old (scan), spam and match (_process_submission), and an exception, in
\* the handler of _process_submission.
MarkingResults == {"old", "spam", "raises", "match"}

\* scan, one pass of "async for submission": the search returns a submission;
\* the 45 s test, the should_run() test, the seen and freshness tests, then
\* _process_submission up to its await of send_alert.
NextSubmission ==
    \E post_id \in PostIds, age \in SubmissionAges, kind \in Kinds,
       search_timed_out \in BOOLEAN :
        LET result == SubmissionResult(post_id, now - age, kind, search_timed_out) IN
        /\ scan_pc = "search"
        /\ submission_count < MaxSubmissions
        /\ last_submission' = [post_id |-> post_id, result |-> result]
        /\ IF result \in {"search_timeout", "interrupted"}
             THEN /\ scan_pc' = "kw_delay"
                  /\ UNCHANGED <<submission_count, seen_posts, cur_post, skip_reason>>
             ELSE /\ submission_count' = submission_count + 1
                  /\ IF result \in MarkingResults
                       THEN mark_seen(post_id)
                       ELSE UNCHANGED seen_posts
                  /\ skip_reason' = IF result \in {"old", "spam"}
                                      THEN [skip_reason EXCEPT ![post_id] = result]
                                      ELSE skip_reason
                  /\ IF result = "match"
                       THEN scan_pc' = "alert" /\ cur_post' = post_id
                       ELSE UNCHANGED <<scan_pc, cur_post>>
        /\ UNCHANGED <<now, restarted, controlVars, controlHist, state_file, ledger_op, lockVars, kmVars, reportVars, tgVars,
                       cmdVars, kw_idx, found_count, alerts, stats_opportunities, stats_file>>

\* _process_submission after send_alert returned within the 10 s of scan's
\* wait_for (the alert delivered, or its failure logged by send_alert):
\* add_opportunity, return True, and scan counts the opportunity.
AlertDone ==
    \E delivered \in BOOLEAN :
        /\ scan_pc = "alert"
        /\ alerts' = IF delivered THEN [alerts EXCEPT ![cur_post] = Min(@ + 1, 2)] ELSE alerts
        /\ add_opportunity(cur_post)
        /\ found_count' = found_count + 1
        /\ scan_pc' = "search"
        /\ cur_post' = ""
        /\ UNCHANGED <<now, restarted, controlVars, controlHist, ledgerVars, ledger_op, lockVars, kmVars, reportVars, tgVars,
                       cmdVars, kw_idx, submission_count, stats_file, skip_reason,
                       last_submission>>

\* scan's wait_for(_process_submission, 10.0) expires while send_alert is
\* awaited: _process_submission is cancelled (the request may or may not
\* have reached Telegram), and scan marks the post seen.
AlertTimeout ==
    \E delivered \in BOOLEAN :
        /\ scan_pc = "alert"
        /\ alerts' = IF delivered THEN [alerts EXCEPT ![cur_post] = Min(@ + 1, 2)] ELSE alerts
        /\ mark_seen(cur_post)
        /\ scan_pc' = "search"
        /\ cur_post' = ""
        /\ UNCHANGED <<now, restarted, controlVars, controlHist, state_file, ledger_op, lockVars, kmVars, reportVars, tgVars,
                       cmdVars, kw_idx, submission_count, found_count, stats_opportunities,
                       stats_file, skip_reason, last_submission>>

\* The search is exhausted (or has returned its limit): scan logs the count
\* and sleeps before the next keyword.
SearchEnds ==
    /\ scan_pc = "search"
    /\ scan_pc' = "kw_delay"
    /\ UNCHANGED <<now, restarted, controlVars, controlHist, ledgerVars, ledger_op, lockVars, kmVars, reportVars, tgVars,
                   cmdVars, kw_idx, submission_count, found_count, cur_post, alerts,
                   stats_opportunities, stats_file, skip_reason, last_submission>>

\* scan after the delay between keywords: the next keyword, if there is one
\* and should_run(); otherwise scan returns, and monitor_loop saves the
\* ledger, the stats and the control state and sleeps until the next cycle.
NextKeyword ==
    /\ scan_pc = "kw_delay"
    /\ IF kw_idx < NumKeywords /\ should_run
         THEN /\ scan_pc' = "search"
              /\ kw_idx' = kw_idx + 1
              /\ submission_count' = 0
              /\ UNCHANGED <<state_file, stats_file, control_file>>
         ELSE /\ scan_pc' = "idle"
              /\ save_state
              /\ save_stats
              /\ save_control(is_running, last_command, last_command_time)
              /\ UNCHANGED <<kw_idx, submission_count>>
    /\ UNCHANGED <<now, restarted, is_running, last_command, last_command_time, controlHist,
                   seen_posts, ledger_op, lockVars, kmVars, reportVars, tgVars, cmdVars, found_count, cur_post, alerts,
                   stats_opportunities, skip_reason, last_submission>>

\* scan, "except Exception" around a keyword's search: the feed fails (the
\* request for the listing, or the iteration); the error is logged and scan
\* sleeps before the next keyword.
SearchFails ==
    /\ scan_pc = "search"
    /\ scan_pc' = "kw_delay"
    /\ last_submission' = [post_id |-> "", result |-> "search_error"]
    /\ UNCHANGED <<now, restarted, controlVars, controlHist, ledgerVars, ledger_op, lockVars, kmVars, reportVars, tgVars,
                   cmdVars, kw_idx, submission_count, found_count, cur_post, alerts,
                   stats_opportunities, stats_file, skip_reason>>

\* An "except Exception" that lets the exception leave the loop: the finally
\* block is next.
on_cycle_exception_fatal == "await_command"

\* monitor_loop, "except Exception" inside "while True": the exception is
\* logged and the loop sleeps 60 seconds.
on_cycle_exception == "backoff"

\* A statement of the scan cycle outside the handlers of scan raises: at the
\* start of the cycle (reset_for_new_day, get_keywords_for_search,
\* _init_reddit) or at the end of scan (closing the Reddit client), before
\* anything is saved.
CycleRaises ==
    /\ \/ scan_pc = "idle" /\ should_run
       \/ scan_pc = "kw_delay" /\ ~(kw_idx < NumKeywords /\ should_run)
    /\ scan_pc' = on_cycle_exception
    /\ last_submission' = [post_id |-> "", result |-> "cycle_error"]
    /\ UNCHANGED <<now, restarted, controlVars, controlHist, ledgerVars, ledger_op, lockVars, kmVars, reportVars, tgVars,
                   cmdVars, kw_idx, submission_count, found_count, cur_post, alerts,
                   stats_opportunities, stats_file, skip_reason>>

\* monitor_loop after the 60 seconds: the top of "while True" again.
Retry ==
    /\ scan_pc = "backoff"
    /\ scan_pc' = "idle"
    /\ UNCHANGED <<now, restarted, controlVars, controlHist, ledgerVars, ledger_op, lockVars, kmVars, reportVars, tgVars,
                   cmdVars, kw_idx, submission_count, found_count, cur_post, alerts,
                   stats_opportunities, stats_file, skip_reason, last_submission>>

\* The main task is cancelled (asyncio.run on Ctrl+C) while monitor_loop is
\* at one of its awaits: CancelledError passes the "except Exception"
\* handlers of _process_submission and scan and ends the loop; the finally
\* block calls command_task.cancel() and awaits the task.  An alert that was
\* being sent may or may not have reached Telegram.
Cancelled ==
    \E delivered \in BOOLEAN :
        /\ scan_pc \in LoopPcs
        /\ delivered => scan_pc = "alert"
        /\ alerts' = IF delivered THEN [alerts EXCEPT ![cur_post] = Min(@ + 1, 2)] ELSE alerts
        /\ scan_pc' = "await_command"
        /\ kw_idx' = 0
        /\ submission_count' = 0
        /\ found_count' = 0
        /\ cur_post' = ""
        /\ UNCHANGED <<now, restarted, controlVars, controlHist, ledgerVars, ledger_op, lockVars, kmVars, reportVars,
                       tgVars, cmdVars, stats_opportunities, stats_file, skip_reason,
                       last_submission>>

\* The command task gets its CancelledError at the await it is suspended at;
\* run_command_loop breaks, and "await command_task" returns.
CommandTaskEnds ==
    /\ scan_pc = "await_command"
    /\ scan_pc' = "gather"
    /\ UNCHANGED <<now, restarted, controlVars, controlHist, ledgerVars, ledger_op, lockVars, kmVars, reportVars, tgVars,
                   cmdVars, kw_idx, submission_count, found_count, cur_post, alerts,
                   stats_opportunities, stats_file, skip_reason, last_submission>>

\* A cleanup that only closes the connections.
cleanup_tasks_close_only ==
    {"command_handler.close", "alerter.close", "reddit_monitor.close"}

\* monitor_loop, finally: the coroutines given to asyncio.gather.
cleanup_tasks ==
    {"command_handler.close", "alerter.close", "reddit_monitor.close",
     "state_manager.save_state"}

\* asyncio.gather(*cleanup_tasks, return_exceptions=True)
Gather ==
    /\ scan_pc = "gather"
    /\ scan_pc' = "final"
    /\ IF "state_manager.save_state" \in cleanup_tasks
         THEN save_state
         ELSE UNCHANGED state_file
    /\ UNCHANGED <<now, restarted, controlVars, controlHist, seen_posts, ledger_op, lockVars, kmVars, reportVars, tgVars,
                   cmdVars, kw_idx, submission_count, found_count, cur_post, alerts,
                   stats_opportunities, stats_file, skip_reason, last_submission>>

\* monitor_loop, the end of the finally block: save_stats(), save_control(),
\* and monitor_loop returns.
FinalSave ==
    /\ scan_pc = "final"
    /\ scan_pc' = "done"
    /\ save_stats
    /\ save_control(is_running, last_command, last_command_time)
    /\ UNCHANGED <<now, restarted, is_running, last_command, last_command_time, controlHist,
                   ledgerVars, ledger_op, lockVars, kmVars, reportVars, tgVars, cmdVars, kw_idx,
                   submission_count, found_count, cur_post, alerts, stats_opportunities,
                   skip_reason, last_submission>>

\* ------------------------------------------------------------- Telegram
\* TELEGRAM_CHAT_ID and some other chat.
ConfiguredChat == "me"
ChatIds == {"me", "other"}
\* The message texts, after strip().lower().
Texts == {"/start", "/stop", "/status", "/help", "hello"}

\* The branch of check_commands that a text takes.
Command(text) ==
    CASE text \in {"/start", "start"} -> "start"
      [] text \in {"/stop", "stop"} -> "stop"
      [] text \in {"/status", "status"} -> "status"
      [] text \in {"/help", "help", "/commands"} -> "help"
      [] OTHER -> "none"

\* Somebody sends the bot a message: the server gives it the next update_id
\* and its clock's time.  (check_commands never looks at the text of another
\* chat's message, so the other chat sends one text only.)
TG_SendFrom(chats, texts) ==
    \E chat_id \in chats, text \in texts :
        /\ tg_next_id <= MaxUpdates
        /\ chat_id # ConfiguredChat => text = "/stop"
        /\ tg_pending' = Append(tg_pending,
               [update_id |-> tg_next_id, chat_id |-> chat_id, text |-> text, date |-> now])
        /\ tg_next_id' = tg_next_id + 1
        /\ UNCHANGED <<now, restarted, controlVars, controlHist, ledgerVars, ledger_op, lockVars, kmVars, reportVars,
                       cmdVars, scanVars>>
TG_Send == TG_SendFrom(ChatIds, Texts)

\* getUpdates: the pending updates from the offset on.
FromOffset(seq, offset) ==
    LET Keep(u) == u.update_id >= offset IN SelectSeq(seq, Keep)

\* --------------------------------------------------- TelegramCommandHandler
NoUpdateFile == [exists |-> FALSE, last_update_id |-> 0, last_command_time |-> 0]
NoUpdate == [update_id |-> 0, chat_id |-> "", text |-> "", date |-> 0]
NoResult == [update |-> NoUpdate, outcome |-> "none", redelivered |-> FALSE]

\* TelegramCommandHandler._load_last_update_id
load_last_update_id ==
    IF update_file.exists THEN update_file.last_update_id ELSE 0

\* TelegramCommandHandler._load_last_command_time; control_time is
\* self.control.last_command_time.
load_last_command_time(control_time) ==
    IF update_file.exists THEN update_file.last_command_time ELSE control_time

\* TelegramCommandHandler._save_last_update_id
save_last_update_id(update_id, command_time) ==
    update_file' = [exists |-> TRUE, last_update_id |-> update_id,
                    last_command_time |-> command_time]

\* check_commands, the request: getUpdates with offset last_update_id + 1.
\* The server forgets the updates below the offset and returns the others.
GetUpdates ==
    /\ updates = <<>>
    /\ tg_pending' = FromOffset(tg_pending, last_update_id + 1)
    /\ updates' = tg_pending'
    /\ UNCHANGED <<now, restarted, controlVars, controlHist, ledgerVars, ledger_op, lockVars, kmVars, reportVars, tg_next_id,
                   last_update_id, cmd_last_command_time, processed_update_ids, update_file,
                   cmd_result, hist_command_time, hist_max_id, last_arrival, scanVars>>

\* An "ignore old commands" test that lets the same second through.
is_old_command_strict(message_time) == message_time < cmd_last_command_time

\* check_commands: message_time <= self.last_command_time
is_old_command(message_time) == message_time <= cmd_last_command_time

\* check_commands, the command branches: what is done for a text that has
\* passed the duplicate, chat and age tests.
Dispatch(text) ==
    CASE Command(text) = "start" -> IF is_running THEN "already_running" ELSE "start"
      [] Command(text) = "stop" -> IF ~is_running THEN "already_stopped" ELSE "stop"
      [] OTHER -> Command(text)

\* _handle_start and _handle_stop, as far as the Control State goes; the
\* other branches send a message only.
HandleCommand(outcome) ==
    CASE outcome = "start" -> start
      [] outcome = "stop" -> stop
      [] OTHER -> UNCHANGED controlVars

\* A loop body without the chat test.
Outcome_any_chat(update) ==
    CASE update.update_id \in processed_update_ids -> "duplicate"
      [] update.update_id \notin processed_update_ids /\ is_old_command(update.date) -> "old"
      [] OTHER -> Dispatch(update.text)

\* What the loop body of check_commands does with an update.
Outcome(update) ==
    CASE update.update_id \in processed_update_ids -> "duplicate"
      [] update.update_id \notin processed_update_ids /\ update.chat_id # ConfiguredChat
           -> "other_chat"
      [] update.update_id \notin processed_update_ids /\ update.chat_id = ConfiguredChat
         /\ is_old_command(update.date)
           -> "old"
      [] OTHER -> Dispatch(update.text)

\* History of the commands that last-write-wins speaks of: a start or stop of
\* the configured chat with an update_id never processed before, that is
\* either not older than the handler's timestamp, or follows a start or stop
\* that was applied (and so carries the timestamp of that command).
NoteArrival(update, outcome, fresh) ==
    IF /\ fresh
       /\ update.chat_id = ConfiguredChat
       /\ Command(update.text) \in {"start", "stop"}
       /\ \/ outcome # "old"
          \/ cmd_result.outcome \in {"start", "stop"}
      THEN last_arrival' = Command(update.text)
      ELSE last_arrival' = last_arrival

\* check_commands, one pass of "for update in updates": the duplicate, chat
\* and age tests, the command, and the new timestamp saved with the update id.
ProcessUpdate ==
    /\ updates # <<>>
    /\ LET update == Head(updates)
           outcome == Outcome(update)
           fresh == update.update_id > hist_max_id
       IN  /\ updates' = Tail(updates)
           /\ cmd_result' = [update |-> update, outcome |-> outcome, redelivered |-> ~fresh]
           /\ hist_max_id' = IF fresh THEN update.update_id ELSE hist_max_id
           /\ NoteArrival(update, outcome, fresh)
           /\ IF outcome = "duplicate"
                THEN UNCHANGED <<processed_update_ids, last_update_id>>
                ELSE /\ processed_update_ids' = processed_update_ids \cup {update.update_id}
                     /\ last_update_id' = update.update_id
           /\ HandleCommand(outcome)
           /\ IF outcome \in {"start", "stop", "status", "help", "none"}
                THEN /\ cmd_last_command_time' = update.date
                     /\ save_last_update_id(update.update_id, update.date)
                     /\ hist_command_time' = update.date
                ELSE UNCHANGED <<cmd_last_command_time, update_file, hist_command_time>>
    /\ UNCHANGED <<now, restarted, controlHist, ledgerVars, ledger_op, lockVars, kmVars, reportVars, tgVars, scanVars>>

\* check_commands as monitor_loop and scan see it, at any of their awaits: a
\* message of the configured chat passes the duplicate and age tests, and its
\* command is carried out.  (Which updates pass those tests, and the
\* handler's record of update ids and timestamps, is ProcessUpdate's matter;
\* this step leaves that record aside.)  The command task is
\* cancelled at the start of the finally block.
CommandText(text) ==
    /\ scan_pc \notin ShutdownPcs
    /\ HandleCommand(Dispatch(text))
    /\ UNCHANGED <<now, restarted, controlHist, ledgerVars, ledger_op, lockVars, kmVars, reportVars, tgVars, cmdVars,
                   scanVars>>
CommandLoop == \E text \in Texts : CommandText(text)

\* TelegramCommandHandler.__init__, given the control manager's
\* last_command_time.
TelegramCommandHandler_init(control_time) ==
    /\ last_update_id' = load_last_update_id
    /\ cmd_last_command_time' = load_last_command_time(control_time)
    /\ processed_update_ids' = {}
    /\ update_file' = update_file
    /\ updates' = <<>>
    /\ cmd_result' = NoResult
    /\ last_arrival' = "none"
    /\ UNCHANGED <<hist_command_time, hist_max_id>>

\* clear_webhook: deleteWebhook with drop_pending_updates; the request may
\* fail, which is logged and ignored.
clear_webhook == tg_pending' \in {<<>>, tg_pending}

\* The process is killed at any point and started again: monitor_loop builds
\* its components from the files.
Restart ==
    /\ load_state
    /\ ControlManager_init
    /\ clear_webhook
    /\ TelegramCommandHandler_init(last_command_time')
    /\ restarted' = TRUE
    /\ scan_pc' = "idle"
    /\ kw_idx' = 0
    /\ submission_count' = 0
    /\ found_count' = 0
    /\ cur_post' = ""
    /\ alerts' = [p \in PostIds |-> 0]
    /\ stats_opportunities' = load_stats
    /\ skip_reason' = [p \in PostIds |-> "none"]
    /\ last_submission' = NoSubmission
    /\ last_report_check' = wall_minute
    /\ UNCHANGED <<now, controlHist, ledger_op, lockVars, kmVars, tg_next_id, stats_file,
                   wall_minute, reports_sent>>

\* ------------------------------------------------------------------- Init
Init ==
    /\ now = 0
    /\ restarted = FALSE
    /\ is_running = TRUE
    /\ last_command = "start"
    /\ last_command_time = 0
    /\ control_file = NoControlFile
    /\ control_calls = <<>>
    /\ last_mutation = "none"
    /\ seen_posts = EmptyDict
    /\ state_file = NoStateFile
    /\ ledger_op = [op |-> "load_state", post_id |-> "", at |-> 0, result |-> TRUE]
    /\ lock = "none"
    /\ save_pc = "idle"
    /\ save_written = {}
    /\ save_views = {}
    /\ mark_pc = "idle"
    /\ mark_arg = ""
    /\ keyword_rows = <<>>
    /\ primary_keywords = <<>>
    /\ secondary_keywords = <<>>
    /\ all_keywords = {}
    /\ km_text = <<>>
    /\ spam_result = FALSE
    /\ match_result = NoMatchResult
    /\ tg_pending = <<>>
    /\ tg_next_id = 1
    /\ last_update_id = 0
    /\ cmd_last_command_time = 0
    /\ processed_update_ids = {}
    /\ update_file = NoUpdateFile
    /\ updates = <<>>
    /\ cmd_result = NoResult
    /\ hist_command_time = -1
    /\ hist_max_id = 0
    /\ last_arrival = "none"
    /\ scan_pc = "idle"
    /\ kw_idx = 0
    /\ submission_count = 0
    /\ found_count = 0
    /\ cur_post = ""
    /\ alerts = [p \in PostIds |-> 0]
    /\ stats_opportunities = [p \in PostIds |-> 0]
    /\ stats_file = NoStatsFile
    /\ skip_reason = [p \in PostIds |-> "none"]
    /\ last_submission = NoSubmission
    /\ wall_minute = 0
    /\ last_report_check = 0
    /\ reports_sent = 0

NextControl == CM_Start \/ CM_Stop \/ CM_Save \/ CM_Restart \/ Tick
SpecControl == Init /\ [][NextControl]_vars

\* The program across runs: monitor_loop with its scans, the command loop
\* beside it, and restarts.  Within a run the clock stamps ledger entries and the
\* control state, and those stamps are read only at construction (SpecLedger
\* and SpecCommands let time pass); a submission's age is drawn directly.
NextScan == BeginCycle \/ NextSubmission \/ AlertDone \/ AlertTimeout \/ SearchEnds \/ NextKeyword
Next == NextScan \/ CommandLoop \/ Restart
Spec == Init /\ [][Next]_vars

\* One run of monitor_loop, from its start to its return: the scan cycles
\* with their failures, the command loop beside them, and the shutdown; with
\* the event loop's guarantee that the sleep of the error handler ends.
NextFailure == SearchFails \/ CycleRaises \/ Retry
NextShutdown == Cancelled \/ CommandTaskEnds \/ Gather \/ FinalSave
NextRun == NextScan \/ NextFailure \/ NextShutdown \/ CommandLoop
SpecRun == Init /\ [][NextRun]_vars /\ WF_vars(Retry)

NextCommands == TG_Send \/ GetUpdates \/ ProcessUpdate \/ Restart \/ Tick
SpecCommands == Init /\ [][NextCommands]_vars

NextLedger == L_MarkSeen \/ L_IsSeen \/ L_SaveState \/ L_Restart \/ Tick
SpecLedger == Init /\ [][NextLedger]_vars

NextSave == S_Call \/ S_Open \/ S_Write \/ S_Close \/ M_Call \/ M_Acquire \/ M_Body \/ Tick
SpecSave == Init /\ [][NextSave]_vars

NextKeywords == KM_Load
SpecKeywords == Init /\ [][NextKeywords]_vars

NextMatch == KM_LoadMatch \/ KM_FindMatches
SpecMatch == Init /\ [][NextMatch]_vars

NextTail == KM_LoadTail \/ KM_FindMatchesTail
SpecTail == Init /\ [][NextTail]_vars

NextSpam == KM_IsSpam
SpecSpam == Init /\ [][NextSpam]_vars

\* ----------------------------------------------------------------- claims

\* C1: within one process run, whatever the searches return (the same item
\* for several keywords, in several cycles), at most one alert is forwarded
\* and at most one stats entry is appended for any item id.
C1_OpportunityOnce ==
    \A p \in PostIds : alerts[p] <= 1 /\ stats_opportunities[p] <= 1
C1_Witness ==
    \E p \in PostIds :
        /\ alerts[p] = 1
        /\ stats_opportunities[p] = 1
        /\ last_submission = [post_id |-> p, result |-> "seen"]

\* C2: while the running flag is false, scan starts no keyword search and
\* begins no item: the next submission of a search in progress breaks the
\* search, the end of the delay between keywords makes scan return, and no
\* cycle begins; only the item whose alert is being sent is completed.
C2_StopObserved ==
    [][ ~is_running =>
          /\ ~BeginCycle
          /\ kw_idx' <= kw_idx
          /\ submission_count' <= submission_count
          /\ scan_pc' = "search" => scan_pc \in {"search", "alert"}
          /\ scan_pc' = "alert" => scan_pc = "alert"
          /\ NextSubmission => scan_pc' = "kw_delay"
          /\ NextKeyword => scan_pc' = "idle"
          /\ \A p \in PostIds :
               (alerts'[p] > alerts[p] \/ stats_opportunities'[p] > stats_opportunities[p])
                 => (scan_pc = "alert" /\ cur_post = p)
      ]_vars
C2_Witness ==
    /\ ~is_running
    /\ scan_pc = "idle"
    /\ kw_idx < NumKeywords
    /\ last_submission.result = "interrupted"

\* C3: an update whose message timestamp is at or before the last-processed
\* command timestamp (the handler's last_command_time, or the timestamp of
\* the last command processed before a restart) never changes the Control
\* State.
C3_OldUpdatesIgnored ==
    [][ ( /\ ProcessUpdate
          /\ updates # <<>>
          /\ \/ Head(updates).date <= cmd_last_command_time
             \/ Head(updates).date <= hist_command_time )
        => /\ is_running' = is_running
           /\ last_command' = last_command
           /\ last_command_time' = last_command_time
           /\ control_file' = control_file
      ]_vars
\* A start delivered again after a restart, while stopped, and ignored as old.
C3_Witness ==
    /\ restarted
    /\ cmd_result.redelivered
    /\ cmd_result.outcome = "old"
    /\ cmd_result.update.date <= hist_command_time
    /\ Command(cmd_result.update.text) = "start"
    /\ ~is_running

\* C4: after check_commands has processed start and stop commands of the
\* configured chat, each with a new update id, the running flag is the one
\* the last of them asked for, also when consecutive commands carry the same
\* timestamp.
C4_LastWriteWins ==
    last_arrival # "none" => is_running = (last_arrival = "start")

\* C5: every Control State mutator persists immediately: once start() or
\* stop() has returned, the control file exists and its running flag equals
\* the flag in memory; after two stop() calls in a row both are false.
C5_MutatorsPersist ==
    /\ control_calls # <<>> =>
         /\ control_file.exists
         /\ control_file.is_running = is_running
         /\ is_running = (control_calls[Len(control_calls)] = "start")
    /\ control_calls = <<"stop", "stop">> =>
         /\ ~is_running
         /\ ~control_file.is_running
C5_Witness ==
    /\ control_calls = <<"stop", "stop">>
    /\ ~is_running
    /\ control_file.exists
    /\ ~control_file.is_running

C8_MarkSeenIdempotent ==
    [][ /\ \A p \in PostIds :
             L_MarkSeenId(p) =>
               /\ p \in DOMAIN seen_posts'
               /\ Cardinality(DOMAIN seen_posts') <= Cardinality(DOMAIN seen_posts) + 1
               /\ is_seen(p) => DOMAIN seen_posts' = DOMAIN seen_posts
        /\ \A p \in PostIds : L_IsSeenId(p) => seen_posts' = seen_posts
      ]_vars
C8_Witness ==
    \E p \in PostIds :
        /\ ledger_op.result
        /\ ledger_op.op = "mark_seen"
        /\ ledger_op.post_id = p
        /\ is_seen(p)
        /\ Cardinality(DOMAIN seen_posts) = 1

\* C9: immediately after load_state the ledger holds no entry older than
\* MAX_POST_AGE_HOURS at the time of the load, and holds every persisted
\* entry newer than the cutoff, with its persisted time.
C9_LoadPrunes ==
    (ledger_op.op = "load_state" /\ ledger_op.at = now /\ state_file.exists) =>
        /\ \A p \in DOMAIN seen_posts : ~(seen_posts[p] < now - MAX_POST_AGE_HOURS)
        /\ \A p \in DOMAIN state_file.data :
             state_file.data[p] > now - MAX_POST_AGE_HOURS =>
               /\ p \in DOMAIN seen_posts
               /\ seen_posts[p] = state_file.data[p]
C9_Witness ==
    /\ restarted
    /\ ledger_op.op = "load_state"
    /\ ledger_op.at = now
    /\ state_file.exists
    /\ \E p \in DOMAIN state_file.data :
         /\ state_file.data[p] < now - MAX_POST_AGE_HOURS
         /\ p \notin DOMAIN seen_posts
    /\ \E p \in DOMAIN state_file.data :
         /\ state_file.data[p] > now - MAX_POST_AGE_HOURS
         /\ p \in DOMAIN seen_posts

\* C10: at every point of a run is_seen(id) is true only if id was marked
\* seen within the last MAX_POST_AGE_HOURS.
C10_NoStaleDedup ==
    \A p \in PostIds : is_seen(p) => now - seen_posts[p] <= MAX_POST_AGE_HOURS

\* C11: the ledger is bounded.  For any capacity, take capacity + 1 distinct
\* ids (here PostIds): the ledger never holds more than capacity entries, so
\* marking them all evicts the least recently marked, and is_seen is false
\* for it.
LedgerCapacity == Cardinality(PostIds) - 1
C11_BoundedLedger ==
    /\ Cardinality(DOMAIN seen_posts) <= LedgerCapacity
    /\ (ledger_op.op = "mark_seen" /\ ~ledger_op.result /\ ledger_op.at = now) =>
         \E evicted \in PostIds \ {ledger_op.post_id} : ~is_seen(evicted)

\* C12: the mapping that a save_state call leaves in the file is the ledger
\* as it was at one moment of the call: every mark_seen made beside the save
\* is in it wholly or not at all.
C12_ConsistentSnapshot ==
    (save_pc = "idle" /\ save_views # {}) =>
        /\ state_file.exists
        /\ state_file.data \in save_views
C12_Witness ==
    /\ save_pc = "idle"
    /\ Cardinality(save_views) >= 2
    /\ state_file.exists
    /\ Cardinality(DOMAIN state_file.data) = Cardinality(PostIds)

\* A keyword as _process_keywords keeps it: str(...).strip().lower()
FoldedKeyword(raw) == lower(strip(raw))
\* The rows of the file whose keyword is the term kw.
RowsOf(kw) == {r \in 1..Len(keyword_rows) : FoldedKeyword(keyword_rows[r][1]) = kw}
SetMax(S) == CHOOSE x \in S : \A y \in S : y <= x
SetMin(S) == CHOOSE x \in S : \A y \in S : x <= y
\* The keyword set, primary tier first.
KeywordSet == primary_keywords \o secondary_keywords

\* C18: in the keyword set that _process_keywords builds, every term is
\* case-folded and stripped, no term occurs twice, and the volume of a term is
\* the maximum of the volumes of the rows it occurs in.
C18_UniqueMaxVolume ==
    /\ \A i, j \in 1..Len(KeywordSet) : KeywordSet[i][1] = KeywordSet[j][1] => i = j
    /\ \A i \in 1..Len(KeywordSet) :
         /\ FoldedKeyword(KeywordSet[i][1]) = KeywordSet[i][1]
         /\ RowsOf(KeywordSet[i][1]) # {}
         /\ KeywordSet[i][2] = SetMax({keyword_rows[r][2] : r \in RowsOf(KeywordSet[i][1])})
C18_Witness ==
    \E i \in 1..Len(KeywordSet) :
        \E r1, r2 \in RowsOf(KeywordSet[i][1]) :
            /\ r1 < r2
            /\ keyword_rows[r1][1] # keyword_rows[r2][1]
            /\ keyword_rows[r1][2] > keyword_rows[r2][2]
            /\ KeywordSet[i][2] = keyword_rows[r1][2]

\* C19: the keyword set is a partition into the min(10, n) terms of highest
\* volume (primary) and the others (secondary): the tiers are disjoint, make
\* up all_keywords, are in descending order of volume, and terms of equal
\* volume are in the order of their first rows in the file.
C19_TierPartition ==
    LET n == Cardinality(all_keywords) IN
    /\ Len(primary_keywords) = Min(PrimaryTierSize, n)
    /\ Len(secondary_keywords) = n - Min(PrimaryTierSize, n)
    /\ {KeywordSet[i][1] : i \in 1..Len(KeywordSet)} = all_keywords
    /\ \A r \in 1..Len(keyword_rows) :
         Len(FoldedKeyword(keyword_rows[r][1])) > 1
           => FoldedKeyword(keyword_rows[r][1]) \in all_keywords
    /\ \A i, j \in 1..Len(KeywordSet) :
         i < j =>
           /\ KeywordSet[i][1] # KeywordSet[j][1]
           /\ KeywordSet[i][2] >= KeywordSet[j][2]
           /\ KeywordSet[i][2] = KeywordSet[j][2]
                => SetMin(RowsOf(KeywordSet[i][1])) < SetMin(RowsOf(KeywordSet[j][1]))
C19_Witness ==
    /\ secondary_keywords # <<>>
    /\ primary_keywords[PrimaryTierSize][2] = secondary_keywords[1][2]
    /\ primary_keywords[1][2] > primary_keywords[PrimaryTierSize][2]

\* The keywords that find_matches checks, and those of the primary tier.
CheckedKeywords ==
    {primary_keywords[i][1] : i \in 1..Len(primary_keywords)}
      \cup {CheckedSecondary[i][1] : i \in 1..Len(CheckedSecondary)}
PrimaryTerms == {primary_keywords[i][1] : i \in 1..Len(primary_keywords)}
\* The character of str at 0-based position pos is not alphanumeric, or there
\* is no such character.
NotAlnumAt(str, pos) == (pos \in 0..(Len(str) - 1)) => ~IsAlnum(str[pos + 1])
\* The occurrences of a keyword that count: for a keyword of at most 3
\* characters those between non-alphanumeric characters, for a longer one all.
CountedOccurrences(keyword, str) ==
    IF Len(keyword) <= 3
      THEN {i \in Occurrences(keyword, str) :
               NotAlnumAt(str, i - 1) /\ NotAlnumAt(str, i + Len(keyword))}
      ELSE Occurrences(keyword, str)
\* A find_matches call has been made on a text.
Matched == keyword_rows # <<>> /\ km_text # <<>>

\* C13: after find_matches(text), a checked keyword of at most 3 characters
\* is in matched_keywords iff the case-folded text has an occurrence of it
\* between non-alphanumeric characters (or the ends of the text), and a
\* longer one iff it is a substring of the case-folded text.
C13_BoundaryRule ==
    Matched =>
        \A keyword \in CheckedKeywords :
            (keyword \in Range(match_result.matched_keywords))
              <=> (CountedOccurrences(keyword, lower(km_text)) # {})

\* C14: after find_matches(text), the priority is "primary" iff a term of
\* matched_keywords is of the primary tier, whatever the matched competitors
\* and the locale flag are.
C14_PriorityIffPrimary ==
    Matched =>
        ((match_result.priority = "primary")
           <=> (Range(match_result.matched_keywords) \cap PrimaryTerms # {}))
C14_Witness ==
    /\ Matched
    /\ match_result.priority = "secondary"
    /\ match_result.matched_keywords # <<>>
    /\ match_result.matched_competitors # {}
    /\ match_result.india_related

\* C15: matched_keywords holds no term twice, and its terms are in the order
\* of their first occurrences in the text.
C15_FirstMatchOrder ==
    Matched =>
        LET matched == match_result.matched_keywords
            FirstAt(keyword) == SetMin(CountedOccurrences(keyword, lower(km_text)))
        IN  \A i, j \in 1..Len(matched) :
                i < j => /\ matched[i] # matched[j]
                         /\ CountedOccurrences(matched[i], lower(km_text)) # {}
                         /\ CountedOccurrences(matched[j], lower(km_text)) # {}
                         /\ FirstAt(matched[i]) <= FirstAt(matched[j])

\* C17: is_spam(text) is true iff the case-folded text contains a phrase of
\* SPAM_KEYWORDS, case-folded; "[SELLING] cheap BTC" is spam and "bitcoin
\* news today" is not.
C17_SpamIffPhrase ==
    /\ spam_result <=> \E i \in 1..Len(SPAM_KEYWORDS) :
                           Occurrences(lower(SPAM_KEYWORDS[i]), lower(km_text)) # {}
    /\ km_text = Concat(<<SellingPiece, CheapBtcPiece>>) => spam_result
    /\ km_text = BitcoinNewsPiece => ~spam_result
C17_Witness ==
    /\ km_text = Concat(<<SellingPiece, CheapBtcPiece>>)
    /\ spam_result

\* C20: when the processing of an item raises, or runs into scan's timeout,
\* the item is marked seen and scan goes on with the same keyword's search:
\* the search is not left and scan does not return.
C20_ItemFailureContained ==
    [][ /\ (NextSubmission /\ last_submission'.result = "raises") =>
              /\ last_submission'.post_id \in DOMAIN seen_posts'
              /\ scan_pc' = "search"
              /\ kw_idx' = kw_idx
              /\ submission_count' = submission_count + 1
        /\ AlertTimeout =>
              /\ cur_post \in DOMAIN seen_posts'
              /\ scan_pc' = "search"
              /\ kw_idx' = kw_idx
              /\ submission_count' = submission_count
      ]_vars
C20_Witness ==
    \E p, q \in PostIds :
        /\ p # q
        /\ last_submission = [post_id |-> q, result |-> "raises"]
        /\ is_seen(q)
        /\ is_seen(p) /\ alerts[p] = 1 /\ stats_opportunities[p] = 0
        /\ scan_pc = "search"
        /\ submission_count = MaxSubmissions
        /\ kw_idx = 1

\* C21: an exception raised in a scan cycle never ends the monitor loop: the
\* loop's handler catches it and sleeps, and after the sleep the loop is at
\* its top again, where it begins a cycle or waits while stopped (only a
\* cancellation or the end of the process takes it away from there); a
\* keyword whose search fails is followed by the next keyword of the cycle.
\* The loop is left for the finally block by cancellation only.
C21_CycleErrorsContained ==
    /\ [][ /\ CycleRaises => scan_pc' = "backoff"
           /\ (scan_pc = "backoff" /\ scan_pc' # "backoff")
                => \/ Retry /\ scan_pc' = "idle"
                   \/ Cancelled
                   \/ Restart
           /\ SearchFails => (scan_pc' = "kw_delay" /\ kw_idx' = kw_idx)
           /\ ( /\ NextKeyword
                /\ last_submission.result = "search_error"
                /\ kw_idx < NumKeywords
                /\ should_run )
                => (scan_pc' = "search" /\ kw_idx' = kw_idx + 1)
           /\ (scan_pc \in LoopPcs /\ scan_pc' \in ShutdownPcs) => Cancelled
         ]_vars
    /\ (scan_pc = "backoff") ~> (scan_pc \in {"idle", "await_command"})
\* After an exception at the end of a scan that found an opportunity, the
\* next cycle has begun.
C21_Witness ==
    /\ scan_pc = "search"
    /\ kw_idx = 1
    /\ last_submission.result = "cycle_error"
    /\ \E p \in PostIds : stats_opportunities[p] = 1

\* C22: a failure to deliver an alert never aborts the scan: when the item's
\* alert step ends without the alert having reached Telegram (send_alert
\* failed, got a non-200 answer, or ran into the timeout), the item is in the
\* ledger, its Opportunity is appended to the stats, and scan is back in the
\* search for the next item.
C22_AlertFailureTolerated ==
    [][ \A p \in PostIds :
          ( /\ scan_pc = "alert"
            /\ cur_post = p
            /\ AlertDone \/ AlertTimeout
            /\ alerts'[p] = alerts[p] )
          => /\ p \in DOMAIN seen_posts'
             /\ stats_opportunities'[p] = Min(stats_opportunities[p] + 1, 2)
             /\ scan_pc' = "search"
      ]_vars

\* C23: once a stop command has been applied (and answered with "No new
\* alerts will be sent"), no alert reaches Telegram until a start command is
\* applied, also when the stop arrives while scan is processing an item.
C23_NoAlertAfterStop ==
    [][ (~is_running /\ last_command = "stop")
          => \A p \in PostIds : alerts'[p] <= alerts[p]
      ]_vars

\* C24: an unseen item older than the retention window is marked seen and is
\* not processed any further: from the step that finds it too old to the end
\* of the run the item is in the ledger, no alert is begun or sent for it and
\* it has no stats entry, and every later return of it by a search is skipped
\* as seen (unless the search is broken off before the item is looked at).
C24_OldItemSkipped ==
    \A p \in PostIds :
        skip_reason[p] = "old" =>
            /\ is_seen(p)
            /\ alerts[p] = 0
            /\ stats_opportunities[p] = 0
            /\ cur_post # p
            /\ last_submission.post_id = p
                 => last_submission.result \in {"old", "seen", "search_timeout", "interrupted"}
\* The item was too old, and the search for the next keyword returned it again.
C24_Witness ==
    \E p \in PostIds :
        /\ skip_reason[p] = "old"
        /\ last_submission = [post_id |-> p, result |-> "seen"]
        /\ kw_idx = NumKeywords

\* C25: an item the spam filter rejects is marked seen and skipped: from that
\* step to the end of the run it is in the ledger, it has no alert and no
\* stats entry and none is begun, and a later return of it by a search of
\* this or a later scan is skipped as seen, never matched.
C25_SpamItemSkipped ==
    \A p \in PostIds :
        skip_reason[p] = "spam" =>
            /\ p \in DOMAIN seen_posts
            /\ stats_opportunities[p] = 0
            /\ alerts[p] = 0
            /\ ~(scan_pc = "alert" /\ cur_post = p)
            /\ last_submission.post_id = p => last_submission.result # "match"
\* The item was spam; the scan ended and the ledger was saved with it; in a
\* later scan a search returned it again, and the other item has been found
\* an opportunity.
C25_Witness ==
    \E p, q \in PostIds :
        /\ skip_reason[p] = "spam"
        /\ last_submission = [post_id |-> p, result |-> "seen"]
        /\ state_file.exists
        /\ p \in DOMAIN state_file.data
        /\ scan_pc = "search"
        /\ stats_opportunities[q] = 1

\* C26: an item without text, or with no keyword and no competitor match, is
\* skipped without being marked seen: the step leaves the ledger, the alerts
\* and the stats as they were and stays in the search; while the item is not
\* in the ledger it is evaluated again whenever a search returns it (while
\* running, within the search's time limit and the post's retention window).
\* (The steps that count a submission are those in which scan looks at one.)
C26_NoMatchNotMarked ==
    [][ submission_count' = submission_count + 1 =>
          LET p == last_submission'.post_id
              r == last_submission'.result
          IN  /\ r \in {"empty", "nomatch"} =>
                    /\ seen_posts' = seen_posts
                    /\ p \notin DOMAIN seen_posts'
                    /\ alerts' = alerts
                    /\ stats_opportunities' = stats_opportunities
                    /\ scan_pc' = "search"
                    /\ cur_post' = cur_post
              /\ ( /\ last_submission.result \in {"empty", "nomatch"}
                   /\ last_submission.post_id = p )
                    => r \in Kinds \cup {"old", "search_timeout", "interrupted"}
      ]_vars
\* Two searches of a scan have returned the same item, still unmatched and
\* not in the ledger, while the other item was found an opportunity.
C26_Witness ==
    \E p, q \in PostIds :
        /\ last_submission = [post_id |-> p, result |-> "nomatch"]
        /\ ~is_seen(p)
        /\ scan_pc = "search"
        /\ kw_idx = NumKeywords
        /\ submission_count = 1
        /\ stats_opportunities[q] = 1
        /\ found_count = 1

\* C29: an item is marked seen before its alert is forwarded: while
\* send_alert is being awaited for an item, and whenever an alert for an item
\* has reached Telegram in this run, the item's id is in the ledger.
C29_SeenBeforeAlert ==
    /\ scan_pc = "alert" => (cur_post \in PostIds /\ is_seen(cur_post))
    /\ \A p \in PostIds : alerts[p] > 0 => is_seen(p)
\* send_alert is being awaited for an item that is in the ledger, the alert
\* not sent yet; the other item's alert has been sent.
C29_Witness ==
    \E p, q \in PostIds :
        /\ scan_pc = "alert"
        /\ cur_post = p
        /\ is_seen(p)
        /\ alerts[p] = 0
        /\ alerts[q] = 1

\* C28: on shutdown the command task is cancelled and awaited first, and then
\* the ledger, the stats and the Control State are written before
\* monitor_loop returns: from the cancellation on no command is carried out;
\* until the command task has ended no file is written; then the ledger file
\* is written, then the stats and control files; and when monitor_loop has
\* returned the three files hold the ledger, the stats and the Control State
\* as they are in memory.
C28_ShutdownFlushes ==
    /\ [](scan_pc = "done" =>
            /\ state_file = [exists |-> TRUE, data |-> seen_posts]
            /\ stats_file.exists
            /\ stats_file.opportunities = stats_opportunities
            /\ control_file = [exists |-> TRUE, is_running |-> is_running,
                               last_command |-> last_command,
                               last_command_time |-> last_command_time])
    /\ [][ /\ scan_pc \in ShutdownPcs
                => UNCHANGED <<is_running, last_command, last_command_time>>
           /\ scan_pc' \in {"await_command", "gather"}
                => UNCHANGED <<state_file, stats_file, control_file>>
           /\ scan_pc' = "final"
                => (scan_pc = "gather" /\ UNCHANGED <<stats_file, control_file>>)
           /\ scan_pc' = "done" => (scan_pc = "final" /\ UNCHANGED state_file)
         ]_vars
\* monitor_loop has returned: it was cancelled while stopped, with an item in
\* the ledger and in the stats.
C28_Witness ==
    \E p \in PostIds :
        /\ scan_pc = "done"
        /\ ~is_running
        /\ is_seen(p)
        /\ stats_opportunities[p] = 1
        /\ last_submission = [post_id |-> p, result |-> "match"]

\* C30: only an update of the configured chat changes the Control State or
\* is answered: the loop body of check_commands takes an update of another
\* chat as acknowledged (last_update_id advances to its id) and does nothing
\* else with it (no command branch is entered, so no message is sent; the
\* running flag, last_command, last_command_time and the control file stay as
\* they are); and whenever one of the three fields changes within a run (the
\* constructor sets them at a restart), the update being processed is of the
\* configured chat.
C30_OtherChatsIgnored ==
    [][ /\ ( /\ ProcessUpdate
             /\ updates # <<>>
             /\ Head(updates).chat_id # ConfiguredChat
             /\ Head(updates).update_id \notin processed_update_ids )
            => /\ cmd_result'.outcome = "other_chat"
               /\ last_update_id' = Head(updates).update_id
               /\ last_update_id' > last_update_id
               /\ UNCHANGED <<is_running, last_command, last_command_time, control_file>>
        /\ ( /\ <<is_running, last_command, last_command_time>>' #
                  <<is_running, last_command, last_command_time>>
             /\ ~Restart )
            => /\ updates # <<>>
               /\ Head(updates).chat_id = ConfiguredChat
               /\ cmd_result'.update = Head(updates)
      ]_vars
\* Another chat's /stop has been taken while the monitor runs: it is
\* acknowledged in memory, ahead of the update file, after a command of the
\* configured chat.
C30_Witness ==
    /\ cmd_result.outcome = "other_chat"
    /\ cmd_result.update.text = "/stop"
    /\ is_running
    /\ last_update_id = cmd_result.update.update_id
    /\ update_file.exists
    /\ last_update_id > update_file.last_update_id

\* C27: find_matches checks the primary keywords and at most the first 200
\* secondary keywords, in descending volume order: every matched keyword is a
\* primary keyword or among the first 200 of the secondary tier, and a
\* secondary keyword ranked after the 200th is never one of them, so a text
\* gives a match (keywords or competitors) only through a checked keyword or
\* a competitor.
C27_SecondaryCap ==
    km_text # <<>> =>
        LET matched == Range(match_result.matched_keywords)
            n == Len(secondary_keywords)
        IN  /\ \A i \in 1..n :
                 i > SecondaryCheckLimit => secondary_keywords[i][1] \notin matched
            /\ matched \subseteq
                 {primary_keywords[i][1] : i \in 1..Len(primary_keywords)}
                   \cup {secondary_keywords[i][1] : i \in 1..Min(SecondaryCheckLimit, n)}
            /\ \A i \in 1..(n - 1) : secondary_keywords[i][2] >= secondary_keywords[i + 1][2]
\* The text contains the keyword at rank 201 of the secondary tier and
\* nothing else that is checked: no keyword and no competitor is matched.
C27_Witness ==
    /\ Len(secondary_keywords) = SecondaryCheckLimit + 1
    /\ Contains(secondary_keywords[SecondaryCheckLimit + 1][1], lower(km_text))
    /\ secondary_keywords[SecondaryCheckLimit + 1][1] \in {<<"a", "p", "i">>, <<"d", "e", "f", "i">>}
    /\ match_result.matched_keywords = <<>>
    /\ match_result.matched_competitors = {}

\* C31: every item whose alert reached Telegram is appended to the stats
\* exactly once by the same step and is counted in the number scan returns,
\* also when the per-item timeout of scan expires while send_alert is
\* awaited.
C31_AlertedItemRecorded ==
    [][ \A p \in PostIds :
          alerts'[p] > alerts[p]
          => /\ stats_opportunities'[p] = Min(stats_opportunities[p] + 1, 2)
             /\ found_count' = found_count + 1
      ]_vars

\* -------------------------------------------- the Opportunity of a matched item
\* keywords[:10] in the SEOOpportunity that _process_submission creates
MatchedKeywordsLimit == 10

\* A truncation that keeps the last matched terms instead of the first.
stored_matched_keywords_last(keywords) ==
    IF Len(keywords) <= MatchedKeywordsLimit THEN keywords
    ELSE SubSeq(keywords, Len(keywords) - MatchedKeywordsLimit + 1, Len(keywords))

\* matched_keywords=keywords[:10]
stored_matched_keywords(keywords) ==
    SubSeq(keywords, 1, Min(MatchedKeywordsLimit, Len(keywords)))

\* Whether _process_submission goes on to create an Opportunity from the
\* result of find_matches ("if not (keywords or competitors): return False").
has_opportunity ==
    match_result.matched_keywords # <<>> \/ match_result.matched_competitors # {}

\* The keyword fields of the SEOOpportunity created from the result of
\* find_matches.
opportunity ==
    [matched_keywords |-> stored_matched_keywords(match_result.matched_keywords),
     keyword_priority |-> match_result.priority]

\* Keyword files with more than ten keywords that one text can match: the
\* nine keywords of the middle volume, the eleven four-letter pieces of
\* "cryptocurrency" with one volume w, and the two keywords of MatchPieces
\* with any volumes.  With w = 1 the eleven are in the secondary tier, with
\* w = 3 ten of them are the primary tier.
WindowWord == <<"c", "r", "y", "p", "t", "o", "c", "u", "r", "r", "e", "n", "c", "y">>
WindowRows(w) == [i \in 1..(Len(WindowWord) - 3) |-> <<SubSeq(WindowWord, i, i + 3), w>>]
StoredFiles ==
    {FillerRows \o WindowRows(w)
        \o <<(<<<<"a", "p", "i">>, v1>>), (<<<<"d", "e", "f", "i">>, v2>>)>> :
            v1 \in Volumes, v2 \in Volumes, w \in {1, 3}}
KM_LoadStored == KM_LoadFrom(StoredFiles)

\* The texts matched against them: the long word, the two keywords, a
\* competitor and a blank.
StoredPieces == {WindowWord, <<"a", "p", "i">>, <<"d", "e", "f", "i">>, <<" ">>, <<" ", "o", "k", "x">>}
KM_FindMatchesStored == KM_FindMatchesIn(TextsOf(StoredPieces))

NextStored == KM_LoadStored \/ KM_FindMatchesStored
SpecStored == Init /\ [][NextStored]_vars

\* C32: in the Opportunity created from a match, keyword_priority is
\* "primary" if and only if the stored matched_keywords (the first ten of the
\* matched terms) contain a keyword of the primary tier; the primary matches
\* come first in the list, so the cut after ten terms keeps one of them.
C32_StoredPriorityIffPrimary ==
    (km_text # <<>> /\ has_opportunity)
    => /\ (opportunity.keyword_priority = "primary")
            <=> (\E i \in 1..Len(opportunity.matched_keywords) :
                    opportunity.matched_keywords[i] \in PrimaryTerms)
       /\ Len(opportunity.matched_keywords) <= MatchedKeywordsLimit
       /\ opportunity.keyword_priority \in {"primary", "secondary"}

\* An Opportunity of a text that matches one primary keyword and eleven
\* secondary ones: two matched terms are cut off, the primary one is kept.
C32_Witness ==
    /\ km_text # <<>>
    /\ has_opportunity
    /\ Len(match_result.matched_keywords) = MatchedKeywordsLimit + 2
    /\ {i \in 1..Len(match_result.matched_keywords) :
            match_result.matched_keywords[i] \in PrimaryTerms} = {1}
    /\ opportunity.keyword_priority = "primary"
    /\ Len(opportunity.matched_keywords) = MatchedKeywordsLimit
    /\ opportunity.matched_keywords[1] \in PrimaryTerms

\* ------------------------------------------- monitor_loop, the daily report
\* The report logic reads the wall clock to the minute; the scan itself is
\* followed in Spec and SpecRun and takes a whole number of minutes here.
\* now.hour * 60 + now.minute counts the minutes of a calendar day.
DayMinutes == 1440
\* DAILY_REPORT_TIME = "09:30", as target_minutes
DAILY_REPORT_TIME == 570
\* abs(current_minutes - target_minutes) <= 30
ReportWindow == 30
\* (now - last_report_check).total_seconds() >= 60
ReportCheckGap == 1
\* SCAN_INTERVAL = 300 seconds
SCAN_INTERVAL == 5
\* The calendar days a run is followed for.
MaxDays == 1
\* The minutes a scan can take.
ScanMinutes == {0, 10, 55}

DayOf(minute) == minute \div DayMinutes

\* DailyStatsManager.should_send_report at the given time
should_send_report(minute) ==
    LET current_minutes == minute % DayMinutes
        distance == IF current_minutes >= DAILY_REPORT_TIME
                      THEN current_minutes - DAILY_REPORT_TIME
                      ELSE DAILY_REPORT_TIME - current_minutes
    IN  distance <= ReportWindow

\* One cycle of monitor_loop on a feed without new items: the scan takes d
\* minutes, the three files are saved, the report is sent if it is due (and
\* the stats file is renamed to its archive name), and the loop sleeps
\* SCAN_INTERVAL.
ReportCycle ==
    \E d \in ScanMinutes :
        LET t == wall_minute + d
            checked == t - last_report_check >= ReportCheckGap
            sent == checked /\ should_send_report(t)
            today_sent == IF DayOf(t) = DayOf(wall_minute) THEN reports_sent ELSE 0
            after_check == IF sent THEN Min(today_sent + 1, 2) ELSE today_sent
        IN  /\ scan_pc = "idle"
            /\ should_run
            /\ t + SCAN_INTERVAL <= MaxDays * DayMinutes
            /\ save_state
            /\ save_control(is_running, last_command, last_command_time)
            /\ stats_file' = IF sent
                               THEN NoStatsFile
                               ELSE [exists |-> TRUE, date |-> Today,
                                     opportunities |-> stats_opportunities]
            /\ last_report_check' = IF checked THEN t ELSE last_report_check
            /\ wall_minute' = t + SCAN_INTERVAL
            /\ reports_sent' = IF DayOf(t + SCAN_INTERVAL) = DayOf(t) THEN after_check ELSE 0
            /\ UNCHANGED <<now, restarted, is_running, last_command, last_command_time,
                           controlHist, seen_posts, ledger_op, lockVars, kmVars, tgVars, cmdVars,
                           scan_pc, kw_idx, submission_count, found_count, cur_post, alerts,
                           stats_opportunities, skip_reason, last_submission>>

NextReport == ReportCycle
SpecReport == Init /\ [][NextReport]_vars

\* C33: over any sequence of scan cycles, the monitor loop sends the
\* scheduled daily report at most once on a calendar day, also when several
\* cycles end within the report window around 09:30.
C33_ReportOncePerDay == reports_sent <= 1

\* ------------------------------------------------ the loops without shutdown
\* monitor_loop and the command loop while the process is not cancelled.
\* While should_run() is false the monitor loop only sleeps and tests again,
\* which changes nothing; each of its other steps ends (the sleeps and the
\* timeouts are finite), hence the fairness of its steps.
NextLive == NextScan \/ NextFailure \/ CommandLoop
SpecLive == Init /\ [][NextLive]_vars /\ WF_vars(NextScan) /\ WF_vars(Retry)

\* monitor_loop passes its should_run() test and begins a cycle: scan is
\* called, or the cycle raises before it.
CycleBegins == scan_pc = "idle" /\ scan_pc' \in {"search", "backoff"}

\* C34: once a start command has been applied, a new scan cycle eventually
\* begins unless a stop command is applied first; and no scan cycle begins
\* while the running flag is false.  In steps: a cycle under way comes to
\* its end, whatever the commands; between two cycles the running monitor
\* leaves the pause unless it is stopped; and the loop leaves the pause only
\* by beginning a cycle, with the running flag true.
C34_StartResumesScanning ==
    /\ (scan_pc # "idle") ~> (scan_pc = "idle")
    /\ (scan_pc = "idle" /\ is_running) ~> (scan_pc \in {"search", "backoff"} \/ ~is_running)
    /\ [][(scan_pc = "idle" /\ scan_pc' # "idle") => (is_running /\ CycleBegins)]_vars

\* A start command has been applied to the stopped monitor between two
\* cycles, and the cycle after it has begun.
C34_Witness ==
    /\ last_command = "start"
    /\ is_running
    /\ scan_pc = "search"
    /\ kw_idx = 1
    /\ submission_count = 0
    /\ last_submission.result = "interrupted"
====
